---- MODULE Spec2Model ----
(***************************************************************************)
(* Model of the remote-explorer-game Python client library                 *)
(* (py-lib/remote_explorer_game/remote_explorer_game.py): one              *)
(* RemoteGameSession, its synchronous move, its move_async with the two    *)
(* background runners (worker thread / asyncio task), the                  *)
(* AsyncMovementResult handles and the decoding of move responses, the     *)
(* identifier classes and RemoteGameSessionFactory.create.                 *)
(*                                                                         *)
(* Specifications:                                                         *)
(*   Spec           move and move_async on one session, runners interleaved*)
(*   FairSpec       Spec with the fairness the scheduling gives            *)
(*   AsyncSpec      move_async only, runners interleaved                   *)
(*   WaitSpec       Spec and AsyncMovementResult.wait                      *)
(*   CancelSpec     Spec and asyncio.Task.cancel on handle.task            *)
(*   AwaitEachSpec  Spec with a caller that awaits each move               *)
(*   DecodeSpec     synchronous moves, every shape of response             *)
(*   FactorySpec    RemoteGameSessionFactory.create and identifiers        *)
(*   SessionsSpec   create, and moves on each of the sessions it returned  *)
(*   IdentSpec      the identifier objects: constructors and setters       *)
(*   TileSpec       Tile, Tile.to_json and Tile.from_json                  *)
(*                                                                         *)
(* Python values:                                                          *)
(*   Optional[T]   None is <<>>, a present value v is <<v>>                *)
(*   str (tiles)   a sequence of one-character strings, "AB" = <<"A","B">> *)
(*   dict (JSON)   a record holding exactly the keys that are present;     *)
(*                 a JSON null is modelled as the key being absent (the    *)
(*                 code reads both through dict.get, which returns None)   *)
(***************************************************************************)
EXTENDS Integers, Sequences, FiniteSets, TLC

(***************************************************************************)
(* Bounds                                                                  *)
(***************************************************************************)
\* number of move_async calls (handles created) in one run
MaxHandles == 2
\* number of moves (move or move_async) in progress at the same time
MaxInFlight == 2
\* number of SessionIdentifier objects the caller holds
MaxIdents == 2
\* number of sessions one factory creates in one run
MaxCreates == 2

(***************************************************************************)
(* Python helpers                                                          *)
(***************************************************************************)
None == <<>>
Some(v) == <<v>>

\* dict.get(key): None when the key is absent
Get(d, k) == IF k \in DOMAIN d THEN Some(d[k]) ELSE None

\* bool(dict.get(key, False))
GetBoolDefaultTrue(d, k) == IF k \in DOMAIN d THEN d[k] ELSE TRUE

GetBool(d, k) == IF k \in DOMAIN d THEN d[k] ELSE FALSE

(***************************************************************************)
(* Tile                                                                    *)
(***************************************************************************)
\* what a raising call hands back: the exception text, or the value
Raise(text) == [text |-> text, raised |-> TRUE, value |-> None]
Return(v) == [text |-> "", raised |-> FALSE, value |-> v]

\* Tile(data) for a str argument
TileOfStr(data) ==
    IF Len(data) # 2
    THEN Raise("Tile string must have exactly 2 characters.")
    ELSE Return([left |-> data[1], right |-> data[2]])

\* str(tile)
TileStrSwapped(tile) == <<tile.right, tile.left>>

TileStr(tile) == <<tile.left, tile.right>>

\* Tile.to_json: Optional[Tile] -> Optional[dict]
TileToJson(tile) ==
    IF tile = None THEN None ELSE Some([str |-> TileStr(tile[1])])

\* Tile.from_json: Optional[dict] -> Optional[Tile], or raises ValueError
TileFromJson(obj) ==
    IF obj = None THEN Return(None)
    ELSE LET s == Get(obj[1], "str")
         IN  IF s = None \/ Len(s[1]) # 2
             THEN Raise("Invalid tile JSON: missing/invalid 'str'.")
             ELSE LET t == TileOfStr(s[1])
                  IN  IF t.raised THEN t ELSE Return(Some(t.value))

\* Tile(data) for a tuple argument
TileOfTuple(left, right) ==
    IF Len(left) # 1 \/ Len(right) # 1
    THEN Raise("Tile tuple must be (char, char).")
    ELSE Return([left |-> left[1], right |-> right[1]])

(***************************************************************************)
(* MovementResult                                                          *)
(***************************************************************************)
MovementResult(moved, alive, tile) ==
    [moved_successfully |-> moved, is_agent_alive |-> alive, discovered_tile |-> tile]

(***************************************************************************)
(* Inputs: move vectors, and what the network can answer to one request    *)
(***************************************************************************)
\* move arguments: sequences of integers of length 0..3
Moves == { <<>>, <<1>>, <<1, 0>>, <<1, 2, 3>> }

\* numpy shape of np.array(move, dtype=int)
Shape(move) == <<Len(move)>>

\* RemoteGameSession._normalize_move
NormalizeMoveAny(move) == Return(<<IF Len(move) > 0 THEN move[1] ELSE 0,
                                   IF Len(move) > 1 THEN move[2] ELSE 0>>)

NormalizeMove(move) ==
    IF Shape(move) # <<2>>
    THEN Raise("move must be a length-2 sequence/array")
    ELSE Return(<<move[1], move[2]>>)

\* decoded JSON bodies of a 2xx /move response: a move that succeeds and
\* discovers a tile, a rejected move, and two malformed tile payloads
Payloads ==
    { [moved |-> TRUE, alive |-> TRUE, success |-> TRUE, message |-> "a",
       discovered |-> [str |-> <<"A", "B">>]],
      [success |-> FALSE, message |-> "b"],
      [moved |-> TRUE, alive |-> TRUE, success |-> TRUE,
       discovered |-> [str |-> <<"A">>]],
      [moved |-> TRUE, alive |-> TRUE, success |-> TRUE,
       discovered |-> [other |-> <<"A", "B">>]] }

\* a dict with the key k absent, or present with one of the values
Opt(k, values) == { <<>> } \cup { [f \in {k} |-> v] : v \in values }

\* decoded JSON bodies of a 2xx /move response, every field absent or present:
\* the tile payloads are two tiles and one with a 1-character str
WidePayloads ==
    { a @@ b @@ c @@ d @@ e :
         a \in Opt("success", BOOLEAN), b \in Opt("moved", BOOLEAN),
         c \in Opt("alive", BOOLEAN), d \in Opt("message", {"a", "b"}),
         e \in Opt("discovered", { [str |-> <<"A", "B">>], [str |-> <<"C", "D">>],
                                   [str |-> <<"A">>] }) }

\* the ways one HTTP exchange can end
TransportFailures == {"network", "timeout", "status"}
Kinds == {"ok", "undecodable"} \cup TransportFailures

Outcomes ==
    { [kind |-> "ok", body |-> p] : p \in Payloads }
    \cup { [kind |-> k] : k \in Kinds \ {"ok"} }

WideOutcomes ==
    { [kind |-> "ok", body |-> p] : p \in WidePayloads \cup Payloads }
    \cup { [kind |-> k] : k \in Kinds \ {"ok"} }

\* str(e) of the exception the exchange raises
ErrorText(kind) ==
    CASE kind = "network" -> "ConnectError"
      [] kind = "timeout" -> "ReadTimeout"
      [] kind = "status" -> "HTTPStatusError"
      [] kind = "undecodable" -> "JSONDecodeError"

(***************************************************************************)
(* State                                                                   *)
(***************************************************************************)
\* unit 0 is the caller's thread running move(); unit h >= 1 is the
\* background runner (_runner_thread or _runner_async) of handle h
Handles == 1 .. MaxHandles
Units == 0 .. MaxHandles

VARIABLES
    loopRunning,            \* asyncio.get_running_loop() succeeds in the caller's thread
    is_agent_alive,         \* RemoteGameSession.is_agent_alive
    last_response_message,  \* RemoteGameSession.last_response_message
    discovered_tile,        \* RemoteGameSession._discovered_tile
    handle,                 \* the AsyncMovementResult objects created so far
    frame,                  \* per unit: position, kind of unit (thread or task) and
                            \* locals (discovered_tile, result, e)
    request,                \* per unit: the JSON body of the POST /move in flight
    response,               \* per unit: how the exchange of its request ended
    raised,                 \* the exception the step just taken raised to the caller ("": none)
    returned,               \* the MovementResult the step just taken returned from move()
    lastCompleted,          \* the unit whose move completed most recently (-1: none)
    waiting,                \* the AsyncMovementResult.wait call the caller is blocked in
    waited,                 \* what the caller's most recent wait call returned
    issued,                 \* the session as the most recent awaited move_async found it
    ident,                  \* the SessionIdentifier objects of the caller
    sessions,               \* the RemoteGameSession objects create has returned
    connected,              \* what the create call just made returned or raised
    assigned,               \* what the identifier call just made did (constructor or setter)
    probe,                  \* the Tile call just made: its argument and what it gave
    owner                   \* per unit: the session of the factory its move is on (its
                            \* place in sessions; 0: the one session of the variables above)

vars == <<loopRunning, is_agent_alive, last_response_message, discovered_tile,
          handle, frame, request, response, raised, returned, lastCompleted,
          waiting, waited, issued, ident, sessions, connected, assigned, probe, owner>>

\* the state of the factory and of the caller's identifier objects
factory == <<ident, sessions, connected, assigned>>

\* the sid the session is bound to
Sid == "sid1"

\* AsyncMovementResult.__init__
NewHandle == [ready |-> FALSE, movement_result |-> None, task |-> None, done |-> FALSE]

\* a unit that is not running: no locals
NoFrame(pc) ==
    [discovered_tile |-> None, e |-> None, pc |-> pc, unit |-> "none", result |-> None]

\* SessionIdentifier.__init__
SessionIdentifier(vsid, sid) == [vsid |-> vsid, sid |-> sid]

\* the caller's SessionIdentifier objects
Idents == 1 .. MaxIdents

\* RemoteGameSession.__init__: the session right after the factory built it
InitSession ==
    /\ loopRunning \in BOOLEAN
    /\ is_agent_alive = TRUE
    /\ last_response_message = None
    /\ discovered_tile = None
    /\ handle = [h \in Handles |-> NewHandle]
    /\ frame = [u \in Units |-> NoFrame(IF u = 0 THEN "idle" ELSE "unused")]
    /\ request = [u \in Units |-> None]
    /\ response = [u \in Units |-> None]
    /\ raised = ""
    /\ returned = None
    /\ lastCompleted = -1
    /\ waiting = None
    /\ waited = None
    /\ issued = None

\* one session in use; the factory and the identifier objects play no part
Init ==
    /\ InitSession
    /\ ident = [i \in Idents |-> SessionIdentifier(None, None)]
    /\ sessions = <<>>
    /\ connected = None
    /\ assigned = None
    /\ probe = None
    /\ owner = [u \in Units |-> 0]

(***************************************************************************)
(* The steps of one unit, as functions of the mutable state S              *)
(***************************************************************************)
State ==
    [raised |-> "", tile |-> discovered_tile, alive |-> is_agent_alive,
     handle |-> handle, frame |-> frame, request |-> request, response |-> response,
     returned |-> None, lastCompleted |-> lastCompleted, msg |-> last_response_message]

\* resp.json() of the unit's response
Payload(u, S) == S.response[u][1].body

\* the unit runs as an asyncio task (else: the caller's thread or a worker thread)
IsTask(u, S) == S.frame[u].unit = "task"

\* an exception leaves _parse_move_response: move() lets it propagate to the
\* caller, the runners catch it (the task first leaves its `async with`)
ThrowMarksDead(u, S, text) ==
    IF u = 0
    THEN [S EXCEPT !.raised = text, !.alive = FALSE, !.msg = Some(text),
                   !.frame[u] = NoFrame("idle"), !.response[u] = None]
    ELSE [S EXCEPT !.frame[u].e = Some(text),
                   !.frame[u].pc = IF IsTask(u, S) THEN "aexit_exc" ELSE "except"]

ThrowUncaught(u, S, text) ==
    IF u = 0
    THEN [S EXCEPT !.raised = text, !.frame[u] = NoFrame("idle"), !.response[u] = None]
    ELSE [S EXCEPT !.frame[u] = NoFrame("finished"), !.response[u] = None]

Throw(u, S, text) ==
    IF u = 0
    THEN [S EXCEPT !.raised = text, !.frame[u] = NoFrame("idle"), !.response[u] = None]
    ELSE [S EXCEPT !.frame[u].e = Some(text),
                   !.frame[u].pc = IF IsTask(u, S) THEN "aexit_exc" ELSE "except"]

\* the exchange of the unit's request ends: post() raises (network error, timeout),
\* raise_for_status() raises (non-2xx), resp.json() raises (undecodable body),
\* or resp.json() is handed to _parse_move_response
Receive(u, S, o) ==
    LET T == [S EXCEPT !.response[u] = Some(o), !.request[u] = None]
    IN  IF o.kind = "ok"
        THEN [T EXCEPT !.frame[u].pc = "parse_message"]
        ELSE Throw(u, T, ErrorText(o.kind))

\* self.last_response_message = payload.get("message")
ParseMessageKeeps(u, S) ==
    [S EXCEPT !.msg = IF "message" \in DOMAIN Payload(u, S)
                      THEN Get(Payload(u, S), "message") ELSE S.msg,
              !.frame[u].pc = "parse_tile"]

ParseMessageFirstWins(u, S) ==
    [S EXCEPT !.msg = IF S.msg = None THEN Get(Payload(u, S), "message") ELSE S.msg,
              !.frame[u].pc = "parse_tile"]

ParseMessage(u, S) ==
    [S EXCEPT !.msg = Get(Payload(u, S), "message"), !.frame[u].pc = "parse_tile"]

\* discovered_tile = Tile.from_json(...); self._discovered_tile = discovered_tile
ParseTile(u, S) ==
    LET t == TileFromJson(Get(Payload(u, S), "discovered"))
    IN  IF t.raised
        THEN Throw(u, S, t.text)
        ELSE [S EXCEPT !.tile = t.value, !.frame[u].discovered_tile = t.value,
                       !.frame[u].pc = "parse_alive"]

\* the write of self.is_agent_alive on either branch
ParseAliveIgnoresSuccess(u, S) ==
    [S EXCEPT !.alive = GetBool(Payload(u, S), "alive"),
              !.frame[u].pc = "parse_return"]

ParseAliveAbsorbing(u, S) ==
    [S EXCEPT !.alive = S.alive /\ GetBool(Payload(u, S), "success")
                               /\ GetBool(Payload(u, S), "alive"),
              !.frame[u].pc = "parse_return"]

ParseAlive(u, S) ==
    [S EXCEPT !.alive = IF ~GetBool(Payload(u, S), "success") THEN FALSE
                        ELSE GetBool(Payload(u, S), "alive"),
              !.frame[u].pc = "parse_return"]

\* return MovementResult(.., self.is_agent_alive, discovered_tile)
ParseResult(u, S) ==
    MovementResult(IF ~GetBool(Payload(u, S), "success") THEN FALSE
                   ELSE GetBool(Payload(u, S), "moved"),
                   S.alive, S.frame[u].discovered_tile)

ParseReturn(u, S) ==
    IF u = 0
    THEN [S EXCEPT !.returned = Some(ParseResult(u, S)), !.frame[u] = NoFrame("idle"),
                   !.response[u] = None, !.lastCompleted = 0]
    ELSE [S EXCEPT !.frame[u].result = Some(ParseResult(u, S)),
                   !.frame[u].pc = IF IsTask(u, S) THEN "aexit_ok" ELSE "set_result"]

\* the end of `async with httpx.AsyncClient()`: await client.__aexit__
AsyncExit(u, S) ==
    [S EXCEPT !.frame[u].pc = IF S.frame[u].pc = "aexit_exc" THEN "except" ELSE "set_result"]

\* except Exception as e: record str(e), the result is a dead agent
ExceptSilent(u, S) ==
    [S EXCEPT !.frame[u].result = Some(MovementResult(FALSE, FALSE, None)),
              !.frame[u].pc = "set_result"]

Except(u, S) ==
    [S EXCEPT !.msg = S.frame[u].e,
              !.frame[u].result = Some(MovementResult(FALSE, FALSE, None)),
              !.frame[u].pc = "set_result"]

\* handle.movement_result = result
SetResultSkipped(u, S) ==
    [S EXCEPT !.frame[u].pc = "set_ready"]

SetResult(u, S) ==
    [S EXCEPT !.handle[u].movement_result = S.frame[u].result,
              !.frame[u].pc = "set_ready"]

\* handle.ready = True
SetReady(u, S) ==
    [S EXCEPT !.handle[u].ready = TRUE, !.frame[u].pc = "set_done",
              !.lastCompleted = u]

\* handle._done.set(); the runner returns
SetDoneClearsReady(u, S) ==
    [S EXCEPT !.handle[u].done = TRUE, !.handle[u].ready = FALSE,
              !.frame[u] = NoFrame("finished"), !.response[u] = None]

SetDone(u, S) ==
    [S EXCEPT !.handle[u].done = TRUE, !.frame[u] = NoFrame("finished"),
              !.response[u] = None]

StepPcs == {"parse_message", "parse_tile", "parse_alive", "parse_return",
            "aexit_ok", "aexit_exc", "except", "set_result", "set_ready", "set_done"}

\* one step of unit u
Step(u, S) ==
    CASE S.frame[u].pc = "parse_message" -> ParseMessage(u, S)
      [] S.frame[u].pc = "parse_tile" -> ParseTile(u, S)
      [] S.frame[u].pc = "parse_alive" -> ParseAlive(u, S)
      [] S.frame[u].pc = "parse_return" -> ParseReturn(u, S)
      [] S.frame[u].pc \in {"aexit_ok", "aexit_exc"} -> AsyncExit(u, S)
      [] S.frame[u].pc = "except" -> Except(u, S)
      [] S.frame[u].pc = "set_result" -> SetResult(u, S)
      [] S.frame[u].pc = "set_ready" -> SetReady(u, S)
      [] S.frame[u].pc = "set_done" -> SetDone(u, S)

\* a task runs without interruption up to its next await (or its end)
AwaitPcs == {"aexit_ok", "aexit_exc", "finished"}

RECURSIVE RunToAwait(_, _)
RunToAwait(u, S) ==
    CHOOSE R \in { IF T.frame[u].pc \in AwaitPcs THEN T ELSE RunToAwait(u, T) :
                   T \in {Step(u, S)} } : TRUE

\* a unit runs alone from the end of its exchange to its end (a runner
\* finishes, move() returns or raises)
RECURSIVE RunToEnd(_, _)
RunToEnd(u, S) ==
    IF S.frame[u].pc \in {"finished", "idle"} THEN S
    ELSE CHOOSE R \in { RunToEnd(u, T) : T \in {Step(u, S)} } : TRUE

\* the completion of one request that ended as o, run by itself on a session
\* <<is_agent_alive, last_response_message, _discovered_tile>>: the session
\* it leaves and the result it stores in its handle
Completion(sess, o) ==
    LET S == [raised |-> "", tile |-> sess[3], alive |-> sess[1],
              handle |-> [h \in Handles |-> NewHandle],
              frame |-> [u \in Units |->
                           IF u = 1 THEN [NoFrame("post") EXCEPT !.unit = "thread"]
                           ELSE NoFrame(IF u = 0 THEN "idle" ELSE "unused")],
              request |-> [u \in Units |-> None],
              response |-> [u \in Units |-> None],
              returned |-> None, lastCompleted |-> -1, msg |-> sess[2]]
    IN  CHOOSE c \in { [result |-> R.handle[1].movement_result,
                        session |-> <<R.alive, R.msg, R.tile>>] :
                       R \in {RunToEnd(1, Receive(1, S, o))} } : TRUE

\* the state after a step
Becomes(S) ==
    /\ is_agent_alive' = S.alive
    /\ last_response_message' = S.msg
    /\ discovered_tile' = S.tile
    /\ handle' = S.handle
    /\ frame' = S.frame
    /\ request' = S.request
    /\ response' = S.response
    /\ raised' = S.raised
    /\ returned' = S.returned
    /\ lastCompleted' = S.lastCompleted
    /\ UNCHANGED <<loopRunning, waiting, waited, issued, factory, probe, owner>>

(***************************************************************************)
(* The caller: move() and move_async()                                     *)
(***************************************************************************)
\* the units whose move has started and not yet completed
InFlight ==
    { u \in Units : frame[u].pc \notin {"idle", "wait", "unused", "finished", "cancelled"} }

\* the handle the next AsyncMovementResult() creates
NextHandle ==
    CHOOSE h \in Handles :
        /\ frame[h].pc = "unused"
        /\ \A g \in Handles : frame[g].pc = "unused" => h <= g

\* json={"sid": self.sid, "dx": dx, "dy": dy}
MoveRequest(n) == [sid |-> Sid, dx |-> n[1], dy |-> n[2]]

\* RemoteGameSession.move, up to the blocking post()
Move(m) ==
    /\ frame[0].pc = "idle"
    /\ Cardinality(InFlight) < MaxInFlight
    /\ LET n == NormalizeMove(m)
       IN  IF n.raised
           THEN /\ raised' = n.text
                /\ UNCHANGED <<frame, request>>
           ELSE /\ raised' = ""
                /\ frame' = [frame EXCEPT ![0].pc = "post"]
                /\ request' = [request EXCEPT ![0] = Some(MoveRequest(n.value))]
    /\ returned' = None
    /\ waited' = None
    /\ UNCHANGED <<loopRunning, is_agent_alive, last_response_message, discovered_tile,
                   handle, response, lastCompleted, waiting, issued, factory, probe, owner>>

\* move(): the response to the blocking post() arrives
MoveResponse(o) ==
    /\ frame[0].pc = "post"
    /\ \E T \in {Receive(0, State, o)} : Becomes(T)

\* move(): one step of _parse_move_response in the caller's thread
MoveStep ==
    /\ frame[0].pc \in StepPcs
    /\ \E T \in {Step(0, State)} : Becomes(T)

\* the background unit move_async starts: a task on the running loop of the
\* calling thread, else (get_running_loop raises RuntimeError) a worker thread
DispatchThreadAlways(loop) == "thread"

Dispatch(loop) == IF loop THEN "task" ELSE "thread"

\* RemoteGameSession.move_async: the whole call
MoveAsyncCall(m) ==
    /\ frame[0].pc = "idle"
    /\ \E h \in Handles : frame[h].pc = "unused"
    /\ Cardinality(InFlight) < MaxInFlight
    /\ LET n == NormalizeMove(m)
           h == NextHandle
       IN  IF n.raised
           THEN /\ raised' = n.text
                /\ UNCHANGED <<handle, frame, request>>
           ELSE /\ raised' = ""
                /\ handle' = [handle EXCEPT
                                ![h] = [NewHandle EXCEPT
                                          !.task = IF loopRunning THEN Some(h) ELSE None]]
                /\ frame' = [frame EXCEPT ![h].pc = "start",
                                          ![h].unit = Dispatch(loopRunning)]
                /\ request' = [request EXCEPT ![h] = Some(MoveRequest(n.value))]
    /\ returned' = None
    /\ waited' = None
    /\ UNCHANGED <<loopRunning, is_agent_alive, last_response_message, discovered_tile,
                   response, lastCompleted, waiting, factory, probe, owner>>

MoveAsync(m) == MoveAsyncCall(m) /\ UNCHANGED issued

\* RemoteGameSession.move from call to return (or raise) on a session nothing
\* else is using; response[0] keeps the answer the call received
MoveWhole(m, o) ==
    /\ frame[0].pc = "idle"
    /\ InFlight = {}
    /\ LET n == NormalizeMove(m)
       IN  IF n.raised
           THEN Becomes([State EXCEPT !.raised = n.text, !.response[0] = None])
           ELSE \E R \in {RunToEnd(0, Receive(0, [State EXCEPT
                                  !.frame[0].pc = "post",
                                  !.request[0] = Some(MoveRequest(n.value))], o))} :
                   Becomes([R EXCEPT !.response[0] = Some(o)])

(***************************************************************************)
(* AsyncMovementResult.wait, called by the thread that called move_async   *)
(***************************************************************************)
\* the timeout argument of wait: None (block until finished) or seconds
Timeouts == {None, Some(1)}

\* what wait hands back: movement_result if _done.wait said finished, else None
WaitResult(h, finished, result) ==
    [handle |-> h, result |-> IF finished THEN result ELSE None, finished |-> finished]

\* handle.wait(timeout): the caller enters self._done.wait(timeout)
WaitCall(h, timeout) ==
    /\ frame[0].pc = "idle"
    /\ frame[h].pc # "unused"
    /\ frame' = [frame EXCEPT ![0].pc = "wait"]
    /\ waiting' = Some([handle |-> h, timeout |-> timeout])
    /\ raised' = ""
    /\ returned' = None
    /\ UNCHANGED <<loopRunning, is_agent_alive, last_response_message, discovered_tile,
                   handle, request, response, lastCompleted, waited, issued, factory, probe, owner>>

\* the caller leaves wait with the value w
WaitReturns(w) ==
    /\ frame' = [frame EXCEPT ![0].pc = "idle"]
    /\ waiting' = None
    /\ waited' = Some(w)
    /\ raised' = ""
    /\ returned' = None
    /\ UNCHANGED <<loopRunning, is_agent_alive, last_response_message, discovered_tile,
                   handle, request, response, lastCompleted, issued, factory, probe, owner>>

\* the event is set: _done.wait returns True and wait returns movement_result
WaitFinished ==
    /\ frame[0].pc = "wait"
    /\ handle[waiting[1].handle].done
    /\ WaitReturns(WaitResult(waiting[1].handle, TRUE,
                              handle[waiting[1].handle].movement_result))

\* the timeout elapses with the event not set: _done.wait returns False
WaitTimeoutAborts ==
    /\ frame[0].pc = "wait"
    /\ waiting[1].timeout # None
    /\ ~handle[waiting[1].handle].done
    /\ frame' = [frame EXCEPT ![0].pc = "idle",
                              ![waiting[1].handle] = NoFrame("cancelled")]
    /\ request' = [request EXCEPT ![waiting[1].handle] = None]
    /\ response' = [response EXCEPT ![waiting[1].handle] = None]
    /\ waiting' = None
    /\ waited' = Some(WaitResult(waiting[1].handle, FALSE, None))
    /\ raised' = ""
    /\ returned' = None
    /\ UNCHANGED <<loopRunning, is_agent_alive, last_response_message, discovered_tile,
                   handle, lastCompleted, issued, factory, probe, owner>>

WaitTimeout ==
    /\ frame[0].pc = "wait"
    /\ waiting[1].timeout # None
    /\ ~handle[waiting[1].handle].done
    /\ WaitReturns(WaitResult(waiting[1].handle, FALSE, None))

(***************************************************************************)
(* _runner_thread: a worker thread, interleaved step by step               *)
(***************************************************************************)
\* client.post(...) sends the request
ThreadPost(h) ==
    /\ ~IsTask(h, State)
    /\ frame[h].pc = "start"
    /\ frame' = [frame EXCEPT ![h].pc = "post"]
    /\ raised' = ""
    /\ returned' = None
    /\ UNCHANGED <<loopRunning, is_agent_alive, last_response_message, discovered_tile,
                   handle, request, response, lastCompleted, waiting, waited, issued,
                   factory, probe, owner>>

ThreadResponse(h, o) ==
    /\ ~IsTask(h, State)
    /\ frame[h].pc = "post"
    /\ \E T \in {Receive(h, State, o)} : Becomes(T)

ThreadStep(h) ==
    /\ ~IsTask(h, State)
    /\ frame[h].pc \in StepPcs
    /\ \E T \in {Step(h, State)} : Becomes(T)

(***************************************************************************)
(* _runner_async: a task on the caller's event loop. It runs only while    *)
(* the caller's thread is not inside a blocking call, and without          *)
(* interruption from one await to the next                                 *)
(***************************************************************************)
LoopFree == frame[0].pc = "idle"

\* the task starts and suspends in `await client.post(...)`
TaskPost(h) ==
    /\ IsTask(h, State)
    /\ LoopFree
    /\ frame[h].pc = "start"
    /\ frame' = [frame EXCEPT ![h].pc = "post"]
    /\ raised' = ""
    /\ returned' = None
    /\ UNCHANGED <<loopRunning, is_agent_alive, last_response_message, discovered_tile,
                   handle, request, response, lastCompleted, waiting, waited, issued,
                   factory, probe, owner>>

\* the response arrives: the task runs up to the await that leaves `async with`
TaskResponse(h, o) ==
    /\ IsTask(h, State)
    /\ LoopFree
    /\ frame[h].pc = "post"
    /\ \E R \in {Receive(h, State, o)} :
          \E T \in {IF R.frame[h].pc \in AwaitPcs THEN R ELSE RunToAwait(h, R)} :
             Becomes(T)

\* the task resumes after `async with` and runs to its end
TaskResume(h) ==
    /\ IsTask(h, State)
    /\ LoopFree
    /\ frame[h].pc \in {"aexit_ok", "aexit_exc"}
    /\ \E T \in {RunToAwait(h, State)} : Becomes(T)

(***************************************************************************)
(* asyncio.Task.cancel on the task move_async stored in handle.task        *)
(***************************************************************************)
\* whether `except Exception` catches asyncio.CancelledError: it does where
\* CancelledError derives from Exception (Python 3.7), not where it derives
\* from BaseException (Python 3.8 and later)
ExceptCatchesCancelled == BOOLEAN

\* CancelledError is raised in the task: before its first statement if it has
\* not run yet (outside the try), else at the await it is suspended in
Cancelled(h, S, caught) ==
    LET T == [S EXCEPT !.request[h] = None]
    IN  IF T.frame[h].pc = "start" \/ ~caught
        THEN [T EXCEPT !.frame[h] = NoFrame("cancelled"), !.response[h] = None]
        ELSE IF T.frame[h].pc = "post"
             THEN Throw(h, T, "")
             ELSE RunToAwait(h, [T EXCEPT !.frame[h].e = Some(""),
                                          !.frame[h].pc = "except"])

\* handle.task.cancel(), called in the thread of the event loop
Cancel(h, caught) ==
    /\ frame[0].pc = "idle"
    /\ handle[h].task # None
    /\ frame[h].pc \in {"start", "post", "aexit_ok", "aexit_exc"}
    /\ \E T \in {Cancelled(h, State, caught)} : Becomes(T)

(***************************************************************************)
(* Identifiers and RemoteGameSessionFactory.create                         *)
(***************************************************************************)
\* identifier strings: sequences of characters, the last one too long
Labels == { <<"A">>, <<"A", "B">>, <<"A", "B", "C">> }

\* VisualSessionIdentifier.__init__
VisualSessionIdentifier(identifier_str, color) ==
    IF Len(identifier_str) > 2
    THEN Raise("Identifier string can be 2 characters at most.")
    ELSE Return([identifier_str |-> identifier_str, color |-> color])

\* the identifier argument of create: a SessionIdentifier object of the caller
\* (by reference), a VisualSessionIdentifier, a (str, Color) tuple, a str,
\* None, or something else (an int, a tuple of three)
Identifiers ==
    { [type |-> "None"], [type |-> "int"], [type |-> "tuple3"],
      [vsid |-> [identifier_str |-> <<"A">>, color |-> "Red"],
       type |-> "VisualSessionIdentifier"] }
    \cup { [type |-> "SessionIdentifier", ref |-> i] : i \in Idents }
    \cup { [str |-> l, color |-> "Red", type |-> "tuple"] : l \in Labels }
    \cup { [str |-> l, type |-> "str"] : l \in Labels }

\* a SessionIdentifier create works on: the caller's object ref, or (ref 0) a
\* new object wrapped around vsid
Wrapped(v) ==
    IF v.raised THEN v ELSE Return(Some([vsid |-> Some(v.value), ref |-> 0]))

\* _coerce_session_identifier
CoerceSessionIdentifier(value) ==
    CASE value.type = "None" -> Return(None)
      [] value.type = "SessionIdentifier" ->
            Return(Some([vsid |-> ident[value.ref].vsid, ref |-> value.ref]))
      [] value.type = "VisualSessionIdentifier" -> Wrapped(Return(value.vsid))
      [] value.type = "tuple" -> Wrapped(VisualSessionIdentifier(value.str, value.color))
      [] value.type = "tuple3" -> Raise("too many values to unpack (expected 2)")
      [] value.type = "str" -> Wrapped(VisualSessionIdentifier(value.str, "White"))
      [] OTHER -> Raise("identifier must be SessionIdentifier | VisualSessionIdentifier | (str, Color) | str | None")

\* json={"vsid": vsid_payload, "username": self.username}
ConnectRequest(ident_obj) ==
    [vsid |-> IF ident_obj # None /\ ident_obj[1].vsid # None
              THEN Some([color |-> ident_obj[1].vsid[1].color,
                         identifierStr |-> ident_obj[1].vsid[1].identifier_str])
              ELSE None,
     username |-> "unknown"]

\* decoded JSON bodies of a 2xx /connect response ("" is the empty sid; a
\* message, when there is one, is a string)
ConnectReplies ==
    { a @@ b @@ c : a \in Opt("success", BOOLEAN), b \in Opt("sid", {"", "s1", "s2"}),
                    c \in Opt("message", {"full"}) }

ConnectOutcomes ==
    { [kind |-> "ok", body |-> p] : p \in ConnectReplies }
    \cup { [kind |-> k] : k \in Kinds \ {"ok"} }

\* RemoteGameSession(self.server_url, sid)
NewSession(sid) ==
    [is_agent_alive |-> TRUE, discovered_tile |-> None, last_response_message |-> None,
     sid |-> sid]

\* what one create call did: its argument, the request it sent and the answer
\* (None: nothing was sent), the exception it raised (None: it returned) and
\* the session it returned (its place in sessions)
Connected(value, req, o, error, session) ==
    Some([raised |-> error, request |-> req, session |-> session, arg |-> value,
          reply |-> o])

ErrorGeneric(type, text) ==
    Some([text |-> "Unknown error during session creation.", type |-> type])

Error(type, text) == Some([text |-> text, type |-> type])

\* raise RuntimeError(data.get("message", "Unknown error during session creation."))
ConnectRejected(data) ==
    Error("RuntimeError",
          IF "message" \in DOMAIN data THEN data.message
          ELSE "Unknown error during session creation.")

\* raise RuntimeError("Invalid response from server: missing 'sid'.")
ProtocolError == Error("RuntimeError", "Invalid response from server: missing 'sid'.")

\* create fails: nothing but the exception
CreateRaises(value, req, o, error) ==
    /\ connected' = Connected(value, req, o, error, None)
    /\ UNCHANGED <<ident, sessions>>

\* if ident_obj is not None: ident_obj.sid = sid (kept or overwritten alike)
AssignSid(ident_obj, sid) ==
    IF ident_obj = None \/ ident_obj[1].ref = 0 THEN ident
    ELSE [ident EXCEPT ![ident_obj[1].ref].sid = Some(sid)]

\* return RemoteGameSession(self.server_url, sid)
CreateReturnsUsed(value, req, o, sid) ==
    /\ sessions' = Append(sessions, [NewSession(sid) EXCEPT !.is_agent_alive = FALSE])
    /\ connected' = Connected(value, req, o, None, Some(Len(sessions) + 1))

CreateReturns(value, req, o, sid) ==
    /\ sessions' = Append(sessions, NewSession(sid))
    /\ connected' = Connected(value, req, o, None, Some(Len(sessions) + 1))

\* RemoteGameSessionFactory.create: the whole call
Create(value, o) ==
    /\ Len(sessions) < MaxCreates
    /\ LET c == CoerceSessionIdentifier(value)
           req == Some(ConnectRequest(c.value))
       IN  IF c.raised
           THEN CreateRaises(value, None, None,
                             Error(IF value.type = "int" THEN "TypeError" ELSE "ValueError",
                                   c.text))
           ELSE IF o.kind # "ok"
           THEN CreateRaises(value, req, Some(o), Error(ErrorText(o.kind), ErrorText(o.kind)))
           ELSE IF ~GetBool(o.body, "success")
           THEN CreateRaises(value, req, Some(o), ConnectRejected(o.body))
           ELSE IF Get(o.body, "sid") \in {None, Some("")}
           THEN CreateRaises(value, req, Some(o), ProtocolError)
           ELSE /\ ident' = AssignSid(c.value, o.body.sid)
                /\ CreateReturns(value, req, Some(o), o.body.sid)
    /\ UNCHANGED <<loopRunning, is_agent_alive, last_response_message, discovered_tile,
                   handle, frame, request, response, raised, returned, lastCompleted,
                   waiting, waited, issued, assigned, probe, owner>>

(***************************************************************************)
(* The caller's identifier objects: constructors and property setters      *)
(***************************************************************************)
Colors == {"White", "Red"}

\* VisualSessionIdentifier.identifier_str setter
VsidSetIdentifierStrUnchecked(self, value) ==
    Return([self EXCEPT !.identifier_str = value])

VsidSetIdentifierStr(self, value) ==
    IF Len(value) > 2
    THEN Raise("Identifier string can be 2 characters at most.")
    ELSE Return([self EXCEPT !.identifier_str = value])

\* VisualSessionIdentifier.color setter
VsidSetColor(self, value) == Return([self EXCEPT !.color = value])

\* SessionIdentifier.from_visual
FromVisualOf(identifier_str, color) ==
    LET v == VisualSessionIdentifier(identifier_str, color)
    IN  IF v.raised THEN v ELSE Return(SessionIdentifier(Some(v.value), None))

\* SessionIdentifier.identifier_str and SessionIdentifier.color setters: they
\* hand the value to the setter of self.vsid; set is what that setter does
\* to the vsid object, which stays the vsid of self
Proxy(self, set) ==
    IF self.vsid = None
    THEN Raise("No VSID associated with this SessionIdentifier.")
    ELSE IF set.raised THEN set
    ELSE Return([self EXCEPT !.vsid = Some(set.value)])

\* an identifier call on the caller's object i: what was called (through the
\* SessionIdentifier or on its vsid directly), the value passed and the
\* ValueError it raised ("": it returned)
Assigned(op, i, proxy, value, text) ==
    Some([raised |-> text, value |-> value, ref |-> i, op |-> op, proxy |-> proxy])

\* the call ends: the object as the call left it
IdentBecomes(op, i, proxy, value, r) ==
    /\ assigned' = Assigned(op, i, proxy, value, r.text)
    /\ ident' = IF r.raised THEN ident ELSE [ident EXCEPT ![i] = r.value]
    /\ UNCHANGED <<loopRunning, is_agent_alive, last_response_message, discovered_tile,
                   handle, frame, request, response, raised, returned, lastCompleted,
                   waiting, waited, issued, sessions, connected, probe, owner>>

\* ident = SessionIdentifier.from_visual(identifier_str, color): the caller's
\* variable i holds the new object when the constructor returns
FromVisual(i, identifier_str, color) ==
    IdentBecomes("from_visual", i, TRUE, identifier_str,
                 FromVisualOf(identifier_str, color))

\* ident.identifier_str = value (proxy), ident.vsid.identifier_str = value
SetIdentifierStr(i, proxy, value) ==
    /\ proxy \/ ident[i].vsid # None
    /\ IdentBecomes("identifier_str", i, proxy, value,
                    Proxy(ident[i], IF ident[i].vsid = None THEN Raise("")
                                    ELSE VsidSetIdentifierStr(ident[i].vsid[1], value)))

\* ident.color = value (proxy), ident.vsid.color = value
SetColor(i, proxy, value) ==
    /\ proxy \/ ident[i].vsid # None
    /\ IdentBecomes("color", i, proxy, <<value>>,
                    Proxy(ident[i], IF ident[i].vsid = None THEN Raise("")
                                    ELSE VsidSetColor(ident[i].vsid[1], value)))

(***************************************************************************)
(* Moves on the sessions the factory has returned: each unit works on the  *)
(* attributes of the session object its move was called on                 *)
(***************************************************************************)
\* the state a unit of session k sees: self is sessions[k]
OnSession(k) ==
    [State EXCEPT !.alive = sessions[k].is_agent_alive,
                  !.msg = sessions[k].last_response_message,
                  !.tile = sessions[k].discovered_tile]

\* the attribute writes of a unit of session k land in that object
StoredInClass(k, S) ==
    [j \in DOMAIN sessions |->
        [is_agent_alive |-> S.alive, discovered_tile |-> S.tile,
         last_response_message |-> S.msg, sid |-> sessions[j].sid]]

Stored(k, S) ==
    [sessions EXCEPT ![k] = [is_agent_alive |-> S.alive, discovered_tile |-> S.tile,
                             last_response_message |-> S.msg, sid |-> sessions[k].sid]]

\* the state after a step of a unit of session k (a unit that has ended
\* belongs to no session)
BecomesOn(k, S) ==
    /\ sessions' = Stored(k, S)
    /\ handle' = S.handle
    /\ frame' = S.frame
    /\ request' = S.request
    /\ response' = S.response
    /\ raised' = S.raised
    /\ returned' = S.returned
    /\ lastCompleted' = S.lastCompleted
    /\ owner' = [u \in Units |->
                   IF S.frame[u].pc \in {"idle", "finished"} THEN 0 ELSE owner[u]]
    /\ UNCHANGED <<loopRunning, is_agent_alive, last_response_message, discovered_tile,
                   waiting, waited, issued, ident, connected, assigned, probe>>

\* a move of session k is in progress
Busy(k) == \E u \in InFlight : owner[u] = k

\* sessions[k].move(m): the caller's thread posts the request
SessionMove(k, m) ==
    /\ k \in DOMAIN sessions
    /\ frame[0].pc = "idle"
    /\ ~Busy(k)
    /\ LET n == NormalizeMove(m)
       IN  IF n.raised
           THEN /\ raised' = n.text
                /\ UNCHANGED <<frame, request, owner>>
           ELSE /\ raised' = ""
                /\ frame' = [frame EXCEPT ![0].pc = "post"]
                /\ request' = [request EXCEPT
                                 ![0] = Some([sid |-> sessions[k].sid,
                                              dx |-> n.value[1], dy |-> n.value[2]])]
                /\ owner' = [owner EXCEPT ![0] = k]
    /\ returned' = None
    /\ UNCHANGED <<loopRunning, is_agent_alive, last_response_message, discovered_tile,
                   handle, response, lastCompleted, waiting, waited, issued, factory, probe>>

\* sessions[k].move_async(m)
SessionMoveAsync(k, m) ==
    /\ k \in DOMAIN sessions
    /\ frame[0].pc = "idle"
    /\ \E h \in Handles : frame[h].pc = "unused"
    /\ ~Busy(k)
    /\ LET n == NormalizeMove(m)
           h == NextHandle
       IN  IF n.raised
           THEN /\ raised' = n.text
                /\ UNCHANGED <<handle, frame, request, owner>>
           ELSE /\ raised' = ""
                /\ handle' = [handle EXCEPT
                                ![h] = [NewHandle EXCEPT
                                          !.task = IF loopRunning THEN Some(h) ELSE None]]
                /\ frame' = [frame EXCEPT ![h].pc = "start",
                                          ![h].unit = Dispatch(loopRunning)]
                /\ request' = [request EXCEPT
                                 ![h] = Some([sid |-> sessions[k].sid,
                                              dx |-> n.value[1], dy |-> n.value[2]])]
                /\ owner' = [owner EXCEPT ![h] = k]
    /\ returned' = None
    /\ UNCHANGED <<loopRunning, is_agent_alive, last_response_message, discovered_tile,
                   response, lastCompleted, waiting, waited, issued, factory, probe>>

\* the runner of h posts its request (a task only while the loop is free)
SessionPost(h) ==
    /\ frame[h].pc = "start"
    /\ IsTask(h, State) => LoopFree
    /\ frame' = [frame EXCEPT ![h].pc = "post"]
    /\ raised' = ""
    /\ returned' = None
    /\ UNCHANGED <<loopRunning, is_agent_alive, last_response_message, discovered_tile,
                   handle, request, response, lastCompleted, waiting, waited, issued,
                   factory, probe, owner>>

\* the exchange of unit u ends as o (a task runs on to its next await)
SessionResponse(u, o) ==
    /\ frame[u].pc = "post"
    /\ IsTask(u, State) => LoopFree
    /\ \E R \in {Receive(u, OnSession(owner[u]), o)} :
          \E T \in {IF IsTask(u, State) /\ R.frame[u].pc \notin AwaitPcs
                     THEN RunToAwait(u, R) ELSE R} :
             BecomesOn(owner[u], T)

\* unit u goes on: one step of a thread, a task up to its next await
SessionStep(u) ==
    /\ IF IsTask(u, State)
       THEN LoopFree /\ frame[u].pc \in {"aexit_ok", "aexit_exc"}
       ELSE frame[u].pc \in StepPcs
    /\ \E T \in {IF IsTask(u, State) THEN RunToAwait(u, OnSession(owner[u]))
                   ELSE Step(u, OnSession(owner[u]))} :
          BecomesOn(owner[u], T)

(***************************************************************************)
(* Tile calls of the caller                                                *)
(***************************************************************************)
TileChars == {"A", "B", "C"}

\* strings of at most 2 and of at most 3 characters
ShortStrings ==
    {<<>>} \cup { <<a>> : a \in TileChars } \cup { <<a, b>> : a, b \in TileChars }

TileStrings == ShortStrings \cup { <<a, b, c>> : a, b, c \in TileChars }

\* JSON values handed to Tile.from_json: null, objects without "str" and
\* objects whose "str" is a string
TileJsons ==
    {None, Some([other |-> <<"A", "B">>])} \cup { Some([str |-> x]) : x \in TileStrings }

\* one Tile call: what was called, the tile it is about and the argument that
\* tile was built from (for from_json: the tile its argument was serialized
\* from, if it was), the JSON value it took or gave, and the outcome of a call
\* that can raise
Probed(op, arg, tile, json, out) ==
    Some([tile |-> tile, arg |-> arg, op |-> op, json |-> json, out |-> out])

TileCall(p) ==
    /\ probe' = p
    /\ UNCHANGED <<loopRunning, is_agent_alive, last_response_message, discovered_tile,
                   handle, frame, request, response, raised, returned, lastCompleted,
                   waiting, waited, issued, factory, owner>>

\* t = Tile(data)
NewTile(data) ==
    \E t \in {IF data.type = "str" THEN TileOfStr(data.str)
               ELSE TileOfTuple(data.left, data.right)} :
       TileCall(Probed("Tile", Some(data), IF t.raised THEN None ELSE Some(t.value), None, t))

\* j = Tile.to_json(t), for the tile just built (or for None)
ToJson ==
    /\ IF probe = None THEN TRUE ELSE probe[1].op = "Tile" /\ probe[1].tile # None
    /\ \E t \in {IF probe = None THEN None ELSE probe[1].tile} :
          TileCall(Probed("to_json", IF probe = None THEN None ELSE probe[1].arg, t,
                          TileToJson(t), Return(None)))

\* Tile.from_json(j), for the j that to_json just gave
FromJsonBack ==
    /\ probe # None
    /\ probe[1].op = "to_json"
    /\ TileCall(Probed("from_json", probe[1].arg, Some(probe[1].tile), probe[1].json,
                       TileFromJson(probe[1].json)))

\* Tile.from_json(obj), for a JSON value from elsewhere
FromJson(obj) == TileCall(Probed("from_json", None, None, obj, TileFromJson(obj)))

(***************************************************************************)
(* Specification                                                           *)
(***************************************************************************)
Next ==
    \/ \E m \in Moves : Move(m)
    \/ \E o \in Outcomes : MoveResponse(o)
    \/ MoveStep
    \/ \E m \in Moves : MoveAsync(m)
    \/ \E h \in Handles : ThreadPost(h)
    \/ \E h \in Handles, o \in Outcomes : ThreadResponse(h, o)
    \/ \E h \in Handles : ThreadStep(h)
    \/ \E h \in Handles : TaskPost(h)
    \/ \E h \in Handles, o \in Outcomes : TaskResponse(h, o)
    \/ \E h \in Handles : TaskResume(h)

Spec == Init /\ [][Next]_vars

\* a caller that moves with move_async only
AsyncNext ==
    \/ \E m \in Moves : MoveAsync(m)
    \/ \E h \in Handles : ThreadPost(h)
    \/ \E h \in Handles, o \in Outcomes : ThreadResponse(h, o)
    \/ \E h \in Handles : ThreadStep(h)
    \/ \E h \in Handles : TaskPost(h)
    \/ \E h \in Handles, o \in Outcomes : TaskResponse(h, o)
    \/ \E h \in Handles : TaskResume(h)

AsyncSpec == Init /\ [][AsyncNext]_vars

\* the caller also blocks in handle.wait
WaitNext ==
    \/ Next
    \/ \E h \in Handles, t \in Timeouts : WaitCall(h, t)
    \/ WaitFinished
    \/ WaitTimeout

WaitSpec == Init /\ [][WaitNext]_vars

\* the caller that awaits each move: it goes on to its next move only when
\* every handle it holds is resolved (it has seen handle.ready true)
AwaitedNever == TRUE

Awaited == \A h \in Handles : frame[h].pc # "unused" => handle[h].ready

AwaitMove(m) == Awaited /\ Move(m)

\* issued remembers the session the move starts from
AwaitMoveAsync(m) ==
    /\ Awaited
    /\ MoveAsyncCall(m)
    /\ issued' = IF NormalizeMove(m).raised THEN issued
                 ELSE Some(<<is_agent_alive, last_response_message, discovered_tile>>)

AwaitNext ==
    \/ \E m \in Moves : AwaitMove(m)
    \/ \E o \in Outcomes : MoveResponse(o)
    \/ MoveStep
    \/ \E m \in Moves : AwaitMoveAsync(m)
    \/ \E h \in Handles : ThreadPost(h)
    \/ \E h \in Handles, o \in Outcomes : ThreadResponse(h, o)
    \/ \E h \in Handles : ThreadStep(h)
    \/ \E h \in Handles : TaskPost(h)
    \/ \E h \in Handles, o \in Outcomes : TaskResponse(h, o)
    \/ \E h \in Handles : TaskResume(h)

AwaitEachSpec == Init /\ [][AwaitNext]_vars

\* one caller making synchronous moves, one after the other, answered by
\* every kind of response (a rejected move has no exchange: one outcome stands
\* for all)
DecodeNext ==
    \E m \in Moves :
       \E o \in IF NormalizeMove(m).raised THEN {[kind |-> "network"]} ELSE WideOutcomes :
          MoveWhole(m, o)

DecodeSpec == Init /\ [][DecodeNext]_vars

\* a factory and the caller's identifier objects: one made by
\* SessionIdentifier.from_visual, one that carries a session id already
FactoryInit ==
    /\ InitSession
    /\ ident = [i \in Idents |->
                  IF i = 1
                  THEN SessionIdentifier(Some(VisualSessionIdentifier(<<"A", "B">>,
                                                                      "White").value), None)
                  ELSE SessionIdentifier(None, Some("old"))]
    /\ sessions = <<>>
    /\ connected = None
    /\ assigned = None
    /\ probe = None
    /\ owner = [u \in Units |-> 0]

FactoryNext == \E value \in Identifiers, o \in ConnectOutcomes : Create(value, o)

FactorySpec == FactoryInit /\ [][FactoryNext]_vars

\* a factory, the sessions it returns and moves on each of them, one move per
\* session at a time; the handshake answers are a success with either id, a
\* rejection and a network failure; a move is answered by a success with a
\* tile, by a rejection or by a timeout
SessionConnects ==
    { [kind |-> "ok", body |-> [success |-> TRUE, sid |-> x]] : x \in {"s1", "s2"} }
    \cup { [kind |-> "ok", body |-> [success |-> FALSE, message |-> "full"]],
           [kind |-> "network"] }

SessionOutcomes ==
    { o \in Outcomes : IF o.kind = "ok" THEN "message" \in DOMAIN o.body
                       ELSE o.kind = "timeout" }

SessionsNext ==
    \/ \E o \in SessionConnects : Create([type |-> "None"], o)
    \/ \E k \in 1 .. MaxCreates, m \in Moves : SessionMove(k, m)
    \/ \E k \in 1 .. MaxCreates, m \in Moves : SessionMoveAsync(k, m)
    \/ \E h \in Handles : SessionPost(h)
    \/ \E u \in Units, o \in SessionOutcomes : SessionResponse(u, o)
    \/ \E u \in Units : SessionStep(u)

SessionsSpec == Init /\ [][SessionsNext]_vars

\* the caller builds tiles, serializes them and parses JSON objects
TileNext ==
    \/ \E data \in TileStrings : NewTile([str |-> data, type |-> "str"])
    \/ \E l, r \in ShortStrings : NewTile([left |-> l, right |-> r, type |-> "tuple"])
    \/ ToJson
    \/ FromJsonBack
    \/ \E obj \in TileJsons : FromJson(obj)

TileSpec == Init /\ [][TileNext]_vars

\* the caller builds identifier objects and assigns to their properties
IdentNext ==
    \/ \E i \in Idents, l \in Labels, c \in Colors : FromVisual(i, l, c)
    \/ \E i \in Idents, proxy \in BOOLEAN, l \in Labels : SetIdentifierStr(i, proxy, l)
    \/ \E i \in Idents, proxy \in BOOLEAN, c \in Colors : SetColor(i, proxy, c)

IdentSpec == Init /\ [][IdentNext]_vars

\* the caller also cancels the tasks it finds in handle.task
CancelNext ==
    \/ Next
    \/ \E h \in Handles, caught \in ExceptCatchesCancelled : Cancel(h, caught)

CancelSpec == Init /\ [][CancelNext]_vars

\* what the scheduling guarantees: a started worker thread keeps running, every
\* exchange ends (the per-request timeout bounds it), a blocking move() of the
\* caller goes on, and the event loop runs a task that is ready again and again
\* whenever the caller's thread is not inside a blocking call
Runner(h) ==
    \/ ThreadPost(h)
    \/ \E o \in Outcomes : ThreadResponse(h, o)
    \/ ThreadStep(h)
    \/ TaskPost(h)
    \/ \E o \in Outcomes : TaskResponse(h, o)
    \/ TaskResume(h)

FairSpec ==
    /\ Spec
    /\ WF_vars((\E o \in Outcomes : MoveResponse(o)) \/ MoveStep)
    /\ \A h \in Handles : SF_vars(Runner(h))

(***************************************************************************)
(* Properties                                                              *)
(***************************************************************************)
Dead == MovementResult(FALSE, FALSE, None)

\* the session's derived state
session == <<is_agent_alive, last_response_message, discovered_tile>>

\* C1: a handle whose ready flag is true already holds its movement_result:
\* whatever the caller's polling interleaves with, ready = True is never
\* observable together with movement_result = None
C1_ReadyImpliesResult ==
    \A h \in Handles : handle[h].ready => handle[h].movement_result # None

\* a runner between `handle.ready = True` and `handle._done.set()`
C1_Witness ==
    \E h \in Handles :
        /\ handle[h].ready
        /\ ~handle[h].done
        /\ handle[h].movement_result # None

\* C8: a handle is single-assignment: once movement_result is set it never
\* changes, ready never goes back to false, and a step that writes to handle h
\* is a step of h's own runner (or the move_async call that creates h)
C8_SingleAssignment ==
    [][\A h \in Handles :
          /\ handle[h].movement_result # None
                => handle'[h].movement_result = handle[h].movement_result
          /\ handle[h].ready => handle'[h].ready
          /\ handle[h].done => handle'[h] = handle[h]
          /\ handle'[h] # handle[h]
                => /\ frame'[h].pc # frame[h].pc
                   /\ \A g \in Handles \ {h} : handle'[g] = handle[g]
                   /\ frame[h].pc \in {"unused", "set_result", "set_ready", "set_done",
                                       "aexit_ok", "aexit_exc"}]_vars

\* one handle is resolved for good while the runner of another is writing its own
C8_Witness ==
    \E h, g \in Handles :
        /\ h # g
        /\ handle[h].done
        /\ frame[g].pc = "set_ready"
        /\ handle[g].movement_result # handle[h].movement_result

\* C5: an async move whose request fails at transport level (network error,
\* timeout, non-2xx status) raises nothing to the caller; the step that leaves
\* its except block has recorded str(e) as last_response_message, and the step
\* that makes its handle ready publishes MovementResult(False, False, None)
C5_AsyncTransportFailure ==
    [][\A h \in Handles :
          (response[h] # None /\ response[h][1].kind \in TransportFailures)
          => /\ frame'[h] # frame[h] => raised' = ""
             /\ (frame[h].pc \in {"except", "aexit_exc"}
                 /\ frame'[h].pc \notin {"except", "aexit_exc"})
                   => last_response_message' = Some(ErrorText(response[h][1].kind))
             /\ (~handle[h].ready /\ handle'[h].ready)
                   => handle'[h].movement_result = Some(Dead)]_vars

\* a handle resolved after a non-2xx status, the status text in last_response_message
C5_Witness ==
    \E h \in Handles :
        /\ response[h] = Some([kind |-> "status"])
        /\ handle[h].ready
        /\ handle[h].movement_result = Some(Dead)
        /\ last_response_message = Some(ErrorText("status"))
        /\ raised = ""

\* C6: a synchronous move whose request fails at transport level raises the
\* error to the caller, and neither step of the call (sending the request,
\* receiving the failure) changes is_agent_alive, last_response_message or
\* the discovered tile
C6_SyncTransportFailure ==
    [][/\ (\E m \in Moves : Move(m)) => UNCHANGED session
       /\ \A o \in Outcomes :
             (o.kind \in TransportFailures /\ MoveResponse(o))
             => /\ raised' = ErrorText(o.kind)
                /\ returned' = None
                /\ frame'[0].pc = "idle"
                /\ UNCHANGED session]_vars

\* a timeout was just raised to the caller of a session on which an earlier
\* move left a message and a tile: alive flag, message and tile are kept
C6_Witness ==
    /\ raised = ErrorText("timeout")
    /\ is_agent_alive
    /\ last_response_message = Some("a")
    /\ discovered_tile # None

\* C9: move and move_async with a vector whose shape is not (2,) raise the
\* validation error and do nothing else: no request, no background unit, no
\* handle, no change of the session
C9_InvalidMoveRejected ==
    [][\A m \in Moves :
          (Shape(m) # <<2>> /\ (Move(m) \/ MoveAsync(m)))
          => /\ raised' = NormalizeMove(m).text
             /\ raised' # ""
             /\ UNCHANGED <<session, handle, frame, request, response>>]_vars

\* the validation error was just raised while an earlier async move is in flight
C9_Witness ==
    /\ raised = NormalizeMove(<<1, 2, 3>>).text
    /\ \E h \in Handles : frame[h].pc = "post"
    /\ \E h \in Handles : frame[h].pc = "unused"

\* C10: move_async with a valid vector returns at once: it creates one handle
\* with ready = False, movement_result = None and nothing signalled, starts
\* exactly one background unit for it (a task on the running loop, with
\* handle.task set; else a worker thread, with handle.task None), leaves every
\* other unit and handle alone and leaves the caller free to go on
C10_MoveAsyncDispatch ==
    [][\A m \in Moves :
          (Shape(m) = <<2>> /\ MoveAsync(m))
          => \E h \in Handles :
                /\ frame[h].pc = "unused"
                /\ frame'[h].pc = "start"
                /\ frame'[h].unit = IF loopRunning THEN "task" ELSE "thread"
                /\ ~handle'[h].ready
                /\ handle'[h].movement_result = None
                /\ ~handle'[h].done
                /\ (handle'[h].task # None) <=> loopRunning
                /\ (handle'[h].task # None) <=> (frame'[h].unit = "task")
                /\ request'[h] = Some([sid |-> Sid, dx |-> m[1], dy |-> m[2]])
                /\ \A g \in Units \ {h} : frame'[g] = frame[g]
                /\ \A g \in Handles \ {h} : handle'[g] = handle[g]
                /\ frame'[0].pc = "idle"
                /\ raised' = ""
                /\ UNCHANGED session]_vars

\* the caller holds the handle, is free, and the request is still in flight
C10_Witness ==
    \E h \in Handles :
        /\ frame[h].pc = "post"
        /\ request[h] # None
        /\ ~handle[h].ready
        /\ handle[h].movement_result = None
        /\ frame[0].pc = "idle"

\* C3: whenever no move is in flight, is_agent_alive and the discovered
\* tile of the session are those of the MovementResult of the move that
\* completed most recently (the result move() just returned, or the result
\* in the handle that became ready last)
C3_SessionReflectsLastMove ==
    InFlight = {} =>
        /\ returned # None
              => /\ is_agent_alive = returned[1].is_agent_alive
                 /\ discovered_tile = returned[1].discovered_tile
        /\ (returned = None /\ lastCompleted \in Handles)
              => /\ is_agent_alive = handle[lastCompleted].movement_result[1].is_agent_alive
                 /\ discovered_tile = handle[lastCompleted].movement_result[1].discovered_tile

\* what the completion of a request that ended as o leaves in last_response_message
MessageOf(o) ==
    IF o.kind # "ok" THEN Some(ErrorText(o.kind))
    ELSE IF TileFromJson(Get(o.body, "discovered")).raised
         THEN Some(TileFromJson(Get(o.body, "discovered")).text)
         ELSE Get(o.body, "message")

\* C4: when two async moves were in flight together and both handles are
\* ready, is_agent_alive and last_response_message are the values of the move
\* whose handle became ready last (stated for the moment both runners have
\* set ready and neither has returned yet)
C4_LastResolvedWins ==
    \A h, g \in Handles :
        (/\ h # g
         /\ frame[h].pc = "set_done"
         /\ frame[g].pc = "set_done"
         /\ lastCompleted = h)
        => /\ is_agent_alive = handle[h].movement_result[1].is_agent_alive
           /\ last_response_message = MessageOf(response[h][1])

\* a discovered-tile payload whose str is missing or not 2 characters long
BadTilePayload(p) ==
    /\ "discovered" \in DOMAIN p
    /\ \/ "str" \notin DOMAIN p.discovered
       \/ Len(p.discovered.str) # 2

\* C7: a response with a malformed discovered-tile payload never becomes a
\* MovementResult, neither in the unit that decodes it nor in its handle
C7_ProtocolErrorSurfaced ==
    \A u \in Units :
        (/\ response[u] # None
         /\ response[u][1].kind = "ok"
         /\ BadTilePayload(response[u][1].body))
        => /\ frame[u].result = None
           /\ u \in Handles => handle[u].movement_result = None

\* C2: under FairSpec every handle move_async has created becomes ready and
\* has its completion event set, however the exchange of its request ends
C2_EveryHandleResolves ==
    \A h \in Handles :
        (frame[h].pc # "unused") ~> (handle[h].ready /\ handle[h].done)

\* a handle made ready after its request timed out
C2_Witness ==
    \E h \in Handles :
        /\ response[h] = Some([kind |-> "timeout"])
        /\ handle[h].ready
        /\ frame[h].pc = "set_done"

\* the caller leaves a wait call in this step
WaitEnds == frame[0].pc = "wait" /\ frame'[0].pc = "idle"

C12_WaitIdempotent ==
    [][(WaitEnds /\ handle[waiting[1].handle].ready)
       => /\ waited' # None
          /\ waited'[1].result = handle[waiting[1].handle].movement_result
          /\ UNCHANGED <<handle, session>>]_vars

\* C13: a pending async move cannot be aborted: whatever the caller does with
\* the handle and the session, a runner does not end without having resolved
\* its handle (ready set, completion signal set)
C13_NoAbort ==
    \A h \in Handles :
        frame[h].pc \in {"finished", "cancelled"} => (handle[h].ready /\ handle[h].done)

\* C14: when the caller awaits each handle before its next move, the step
\* that resolves a handle leaves the session and the handle's result equal to
\* what the completion of that one response, run by itself, makes of the
\* session the move was issued on: a function of the responses in issue
\* order, the same for worker threads and tasks and for every schedule
C14_AwaitEachDeterministic ==
    [][\A h \in Handles :
          (~handle[h].ready /\ handle'[h].ready)
          => /\ issued # None
             /\ response[h] # None
             /\ session' = Completion(issued[1], response[h][1]).session
             /\ handle'[h].movement_result
                   = Completion(issued[1], response[h][1]).result]_vars

\* the second awaited move resolves on a session the first one has changed
C14_Witness ==
    /\ handle[1].done
    /\ handle[2].ready
    /\ response[2] # None
    /\ issued # None
    /\ issued[1] # <<TRUE, None, None>>
    /\ handle[2].movement_result # handle[1].movement_result
    /\ session = Completion(issued[1], response[2][1]).session
    /\ session # issued[1]

\* the step is a move() that decoded its response and returned a result
Decodes == returned' # None /\ response'[0] # None /\ response'[0][1].kind = "ok"

\* the body the step decoded, and the tile in it (None when absent)
Body == response'[0][1].body
BodyTile ==
    IF "discovered" \in DOMAIN Body
    THEN Some([left |-> Body.discovered.str[1], right |-> Body.discovered.str[2]])
    ELSE None

\* C15: decoding a response whose success is false or absent sets
\* is_agent_alive to false and returns MovementResult(False, False, tile),
\* whatever its moved and alive fields say
C15_DecodeFailure ==
    [][(Decodes /\ ("success" \notin DOMAIN Body \/ ~Body.success))
       => /\ is_agent_alive' = FALSE
          /\ returned' = Some(MovementResult(FALSE, FALSE, BodyTile))]_vars

\* a response with success false, moved true and alive true was decoded on a
\* live session into a dead, unmoved result
C15_Witness ==
    /\ response[0] # None
    /\ response[0][1].kind = "ok"
    /\ "success" \in DOMAIN response[0][1].body
    /\ ~response[0][1].body.success
    /\ "moved" \in DOMAIN response[0][1].body
    /\ response[0][1].body.moved
    /\ "alive" \in DOMAIN response[0][1].body
    /\ response[0][1].body.alive
    /\ returned # None
    /\ ~returned[1].moved_successfully
    /\ ~returned[1].is_agent_alive
    /\ ~is_agent_alive

\* C16: decoding a response with success true returns
\* MovementResult(moved, alive, tile), moved and alive false when absent, and
\* sets is_agent_alive to alive
C16_DecodeSuccess ==
    [][(Decodes /\ "success" \in DOMAIN Body /\ Body.success)
       => /\ returned' = Some(MovementResult(
                                 "moved" \in DOMAIN Body /\ Body.moved,
                                 "alive" \in DOMAIN Body /\ Body.alive,
                                 BodyTile))
          /\ is_agent_alive' = ("alive" \in DOMAIN Body /\ Body.alive)]_vars

\* success true, moved false, alive true: the agent did not move and lives
C16_Witness ==
    /\ response[0] # None
    /\ response[0][1].kind = "ok"
    /\ "success" \in DOMAIN response[0][1].body
    /\ response[0][1].body.success
    /\ "moved" \in DOMAIN response[0][1].body
    /\ ~response[0][1].body.moved
    /\ "alive" \in DOMAIN response[0][1].body
    /\ response[0][1].body.alive
    /\ returned # None
    /\ ~returned[1].moved_successfully
    /\ returned[1].is_agent_alive
    /\ is_agent_alive

\* C17: every decoded response overwrites last_response_message and the
\* discovered tile, on both branches: without message the message becomes
\* None, without discovered the tile becomes None, whatever they were before
C17_DecodeOverwrites ==
    [][Decodes
       => /\ last_response_message'
                = (IF "message" \in DOMAIN Body THEN Some(Body.message) ELSE None)
          /\ discovered_tile' = BodyTile]_vars

\* a rejected move (success false) without message and tile was decoded: the
\* session holds neither a message nor a tile
C17_Witness ==
    /\ response[0] # None
    /\ response[0][1].kind = "ok"
    /\ DOMAIN response[0][1].body = {"success"}
    /\ ~response[0][1].body.success
    /\ returned # None
    /\ last_response_message = None
    /\ discovered_tile = None

\* C18: a MovementResult holds a discovered tile only if the move executed
C18_TileOnlyIfMoved ==
    returned # None => (returned[1].discovered_tile # None => returned[1].moved_successfully)

\* the step is a create whose handshake was answered success = true with a
\* session id that is not empty
Handshaken ==
    /\ connected' # None
    /\ connected'[1].reply # None
    /\ connected'[1].reply[1].kind = "ok"
    /\ "success" \in DOMAIN connected'[1].reply[1].body
    /\ connected'[1].reply[1].body.success
    /\ "sid" \in DOMAIN connected'[1].reply[1].body
    /\ connected'[1].reply[1].body.sid # ""

\* C19: a create whose handshake succeeds returns a new session bound to the
\* id of the response, with is_agent_alive true and neither message nor tile,
\* and assigns that id to the SessionIdentifier object the caller passed
\* (its visual identifier and every other identifier object stay as they are)
C19_CreateBinds ==
    [][Handshaken
       => /\ connected'[1].raised = None
          /\ connected'[1].session = Some(Len(sessions) + 1)
          /\ sessions' = Append(sessions,
                                [is_agent_alive |-> TRUE,
                                 discovered_tile |-> None,
                                 last_response_message |-> None,
                                 sid |-> connected'[1].reply[1].body.sid])
          /\ connected'[1].arg.type = "SessionIdentifier"
                => /\ ident'[connected'[1].arg.ref].sid
                         = Some(connected'[1].reply[1].body.sid)
                   /\ ident'[connected'[1].arg.ref].vsid = ident[connected'[1].arg.ref].vsid
                   /\ \A j \in Idents \ {connected'[1].arg.ref} : ident'[j] = ident[j]
          /\ connected'[1].arg.type # "SessionIdentifier" => ident' = ident]_vars

\* create(identifier) has just returned the second session of the factory:
\* the caller's identifier object and the session carry the id of the response
C19_Witness ==
    /\ connected # None
    /\ connected[1].arg = [type |-> "SessionIdentifier", ref |-> 1]
    /\ connected[1].session = Some(2)
    /\ connected[1].request # None
    /\ connected[1].request[1].vsid # None
    /\ ident[1].sid = Some(connected[1].reply[1].body.sid)
    /\ sessions[2].sid = connected[1].reply[1].body.sid
    /\ sessions[2].sid # sessions[1].sid
    /\ sessions[2].is_agent_alive

\* C20: the sid of a SessionIdentifier, once set, is never assigned again
C20_SidSetOnce ==
    [][\A i \in Idents : ident[i].sid # None => ident'[i].sid = ident[i].sid]_vars

\* the step is a create whose handshake was answered without success = true
Rejected ==
    /\ connected' # None
    /\ connected'[1].reply # None
    /\ connected'[1].reply[1].kind = "ok"
    /\ ("success" \in DOMAIN connected'[1].reply[1].body
           => ~connected'[1].reply[1].body.success)

\* C21: a create whose handshake response has success false, or no success
\* field, raises the connect-rejected error (RuntimeError) with the message of
\* the response, or "Unknown error during session creation." when the response
\* has none; no session is made and no identifier object changes
C21_ConnectRejected ==
    [][Rejected
       => /\ connected'[1].raised
                = Some([text |-> IF "message" \in DOMAIN connected'[1].reply[1].body
                                 THEN connected'[1].reply[1].body.message
                                 ELSE "Unknown error during session creation.",
                        type |-> "RuntimeError"])
          /\ connected'[1].session = None
          /\ sessions' = sessions
          /\ ident' = ident]_vars

\* a create with the caller's identifier object, which an earlier create gave
\* its sid, was rejected with the server's message: still the one session, the
\* identifier still carries that sid
C21_Witness ==
    /\ connected # None
    /\ connected[1].arg = [type |-> "SessionIdentifier", ref |-> 1]
    /\ connected[1].reply # None
    /\ connected[1].reply[1].kind = "ok"
    /\ connected[1].reply[1].body = [success |-> FALSE, message |-> "full"]
    /\ connected[1].raised = Some([text |-> "full", type |-> "RuntimeError"])
    /\ Len(sessions) = 1
    /\ ident[1].sid = Some(sessions[1].sid)

\* the step is a create whose handshake was answered success = true without
\* a session id, or with an empty one
MissingSid ==
    /\ connected' # None
    /\ connected'[1].reply # None
    /\ connected'[1].reply[1].kind = "ok"
    /\ "success" \in DOMAIN connected'[1].reply[1].body
    /\ connected'[1].reply[1].body.success
    /\ ("sid" \in DOMAIN connected'[1].reply[1].body
           => connected'[1].reply[1].body.sid = "")

\* C22: a create whose handshake response has success true and no session id
\* (or an empty one) raises an error of another kind than the error of a
\* rejected handshake; no session is made and no identifier object changes
C22_ProtocolErrorDistinct ==
    [][MissingSid
       => /\ connected'[1].raised # None
          /\ \A p \in ConnectReplies :
                connected'[1].raised[1].type # ConnectRejected(p)[1].type
          /\ connected'[1].session = None
          /\ sessions' = sessions
          /\ ident' = ident]_vars

\* every visual identifier of the caller has a label of at most 2 characters
LabelsShort ==
    \A i \in Idents : ident[i].vsid # None => Len(ident[i].vsid[1].identifier_str) <= 2

\* C23: the label of a VisualSessionIdentifier never has more than 2
\* characters: a constructor call or an assignment to identifier_str (on the
\* object or through the SessionIdentifier) with a longer label raises the
\* ValueError and leaves every identifier object, label and color, as it was
C23_LabelAtMostTwo ==
    /\ []LabelsShort
    /\ [][(/\ assigned' # None
           /\ assigned'[1].op \in {"from_visual", "identifier_str"}
           /\ Len(assigned'[1].value) > 2)
          => /\ assigned'[1].raised # ""
             /\ ident' = ident]_vars

\* the caller's object 1 has label "AB" and color Red and has just refused the
\* label "ABC" assigned through the SessionIdentifier
C23_Witness ==
    /\ assigned = Assigned("identifier_str", 1, TRUE, <<"A", "B", "C">>,
                           "Identifier string can be 2 characters at most.")
    /\ ident[1].vsid = Some([identifier_str |-> <<"A", "B">>, color |-> "Red"])

\* C25: Tile.from_json(Tile.to_json(t)) is t for every tile t (and None for
\* None), and Tile.from_json of an object whose "str" is absent or is not a
\* string of exactly 2 characters raises instead of giving a tile
C25_TileRoundTrip ==
    (probe # None /\ probe[1].op = "from_json")
       => /\ probe[1].tile # None => probe[1].out = Return(probe[1].tile[1])
          /\ (/\ probe[1].json # None
              /\ ("str" \in DOMAIN probe[1].json[1] => Len(probe[1].json[1].str) # 2))
                => /\ probe[1].out.raised
                   /\ probe[1].out.value = None

\* the tile CA, built from the tuple ("C", "A"), has come back from
\* Tile.from_json(Tile.to_json(t))
C25_Witness ==
    /\ probe # None
    /\ probe[1].op = "from_json"
    /\ probe[1].tile = Some(Some([left |-> "C", right |-> "A"]))
    /\ probe[1].arg = Some([left |-> <<"C">>, right |-> <<"A">>, type |-> "tuple"])
    /\ probe[1].json = Some([str |-> <<"C", "A">>])
    /\ probe[1].out.value = Some([left |-> "C", right |-> "A"])

\* C26: the MovementResult a runner builds from its response depends on that
\* response only, whatever other async moves of the session do meanwhile:
\* is_agent_alive of the result is false for success = false and is the alive
\* field of the response for success = true (stated for a runner that has
\* decoded its response without an exception and holds the result)
C26_ResultOfOwnResponse ==
    \A h \in Handles :
        (/\ frame[h].result # None
         /\ frame[h].e = None
         /\ response[h] # None
         /\ response[h][1].kind = "ok")
        => frame[h].result[1].is_agent_alive
             = (GetBool(response[h][1].body, "success")
                /\ GetBool(response[h][1].body, "alive"))

\* the runner of h was answered by a response it decoded without an
\* exception, and has written the session for it
Wrote(h) ==
    /\ frame[h].pc \in {"aexit_ok", "set_result", "set_ready", "set_done"}
    /\ frame[h].e = None
    /\ response[h] # None
    /\ response[h][1].kind = "ok"

\* the session one completion of a decodable response writes
Alone(o) == Completion(<<TRUE, None, None>>, o).session

\* C27: when the async moves dispatched together on the session have all
\* completed, <<is_agent_alive, last_response_message, _discovered_tile>> is
\* what one of the completions wrote, never fields of different responses
\* (stated for two moves whose responses were both decoded, at the moment
\* both runners have written the session)
C27_NoMixture ==
    \A h, g \in Handles :
        (h # g /\ Wrote(h) /\ Wrote(g))
        => session \in {Alone(response[h][1]), Alone(response[g][1])}

\* C28: when a move_async whose request ended in a transport failure has
\* resolved and no other move is in flight, is_agent_alive is false and
\* _discovered_tile is None (stated for the worker thread that has set
\* handle.ready and has not returned yet)
C28_FailedAsyncMarksDead ==
    \A h \in Handles :
        (/\ frame[h].pc = "set_done"
         /\ handle[h].ready
         /\ response[h] # None
         /\ response[h][1].kind \in TransportFailures
         /\ InFlight \ {h} = {})
        => /\ ~is_agent_alive
           /\ discovered_tile = None

\* the responses a runner decodes without an exception
Decodable ==
    { o \in Outcomes : o.kind = "ok" /\ ~TileFromJson(Get(o.body, "discovered")).raised }

\* both moves are in flight and unanswered; then h is answered oh and
\* completes, then g is answered og and completes
Serial(h, g, oh, og) == RunToEnd(g, Receive(g, RunToEnd(h, Receive(h, State, oh)), og))

\* C29: the race between two move_async calls made without waiting is open:
\* while both requests are unanswered either one can be answered first, and
\* whichever handle resolves last (the first-issued as well as the
\* second-issued) leaves its is_agent_alive and its message in the session
C29_RaceObservable ==
    \A h, g \in Handles :
       (h # g /\ frame[h].pc = "post" /\ frame[g].pc = "post") =>
                /\ ENABLED (\E o \in Outcomes : ThreadResponse(h, o) \/ TaskResponse(h, o))
                /\ \A oh, og \in Decodable :
                      \E F \in {Serial(h, g, oh, og)} :
                         /\ F.handle[h].ready
                         /\ F.handle[g].ready
                         /\ F.lastCompleted = g
                         /\ F.alive = (GetBool(og.body, "success") /\ GetBool(og.body, "alive"))
                         /\ F.msg = Get(og.body, "message")

\* handle 1, of the move issued first, has just resolved after handle 2: the
\* session holds the values of the first move's response (alive, "a", AB),
\* not those of the second move (dead, "b")
C29_Witness ==
    /\ frame[1].pc = "set_done"
    /\ handle[1].ready
    /\ handle[2].ready
    /\ handle[2].done
    /\ lastCompleted = 1
    /\ response[1] # None
    /\ response[1][1].kind = "ok"
    /\ Get(response[1][1].body, "message") = Some("a")
    /\ handle[1].movement_result = Some(MovementResult(TRUE, TRUE, Some([left |-> "A", right |-> "B"])))
    /\ handle[2].movement_result = Some(MovementResult(FALSE, FALSE, None))
    /\ is_agent_alive
    /\ last_response_message = Some("a")

\* C30: a move() that raises (a rejected vector, a failed exchange, a
\* discovered-tile payload Tile.from_json refuses) leaves is_agent_alive,
\* last_response_message and _discovered_tile as they were before the call
C30_MoveAllOrNothing ==
    [][raised' # "" => UNCHANGED session]_vars

\* C24: the sessions of a factory are isolated: a step of a move (move or
\* move_async, from the call to the completion) changes no session but the
\* one the move was called on, and a create changes no session that exists;
\* sid, is_agent_alive, last_response_message and _discovered_tile of every
\* other session stay as they are, however the moves on different sessions
\* interleave
C24_SessionsIsolated ==
    [][\A j \in DOMAIN sessions :
          (\A u \in Units : frame'[u] # frame[u] => (owner[u] # j /\ owner'[u] # j))
             => (j \in DOMAIN sessions' /\ sessions'[j] = sessions[j])]_vars

\* two worker threads, one for a move on each session, have both decoded
\* their responses: session 1 holds the rejected move, session 2 the
\* successful one
C24_Witness ==
    /\ Len(sessions) = 2
    /\ owner[1] = 1
    /\ owner[2] = 2
    /\ frame[1].pc = "parse_return"
    /\ frame[2].pc = "parse_return"
    /\ sessions[1].sid # sessions[2].sid
    /\ ~sessions[1].is_agent_alive
    /\ sessions[1].last_response_message = Some("b")
    /\ sessions[1].discovered_tile = None
    /\ sessions[2].is_agent_alive
    /\ sessions[2].last_response_message = Some("a")
    /\ sessions[2].discovered_tile = Some([left |-> "A", right |-> "B"])

\* C31: a wait without a timeout always returns, whether the move runs in a
\* worker thread or as a task on the loop of the thread that calls wait: while
\* the caller is blocked in wait(None) on h, either the event of h is set (the
\* call can return) or the runner of h can go on
C31_WaitNoTimeoutReturns ==
    (/\ frame[0].pc = "wait"
     /\ waiting # None
     /\ waiting[1].timeout = None)
    => \/ handle[waiting[1].handle].done
       \/ ENABLED Runner(waiting[1].handle)

\* unit u is answered success = true and alive = true, and in this step it
\* executes the write of is_agent_alive (a thread or move() at that statement,
\* a task in the run from its response to the end of `async with`)
RevivedBy(u) ==
    /\ response[u] # None \/ response'[u] # None
    /\ \E o \in {IF response[u] # None THEN response[u][1] ELSE response'[u][1]} :
          /\ o.kind = "ok"
          /\ GetBool(o.body, "success")
          /\ GetBool(o.body, "alive")
    /\ \/ frame[u].pc = "parse_alive" /\ frame'[u].pc # "parse_alive"
       \/ frame[u].pc = "post" /\ frame'[u].pc = "aexit_ok"

\* C32: is_agent_alive false is not absorbing and gates nothing: while it is
\* false, move and move_async with a valid vector still send their request,
\* and a response with success = true and alive = true that is decoded later
\* sets it to true again
C32_DeadNotAbsorbing ==
    /\ []((/\ ~is_agent_alive
           /\ Awaited
           /\ frame[0].pc = "idle"
           /\ Cardinality(InFlight) < MaxInFlight)
          => /\ ENABLED (AwaitMove(<<1, 0>>) /\ request'[0] # None)
             /\ (\E h \in Handles : frame[h].pc = "unused")
                   => ENABLED (AwaitMoveAsync(<<1, 0>>) /\ request'[NextHandle] # None))
    /\ [][\A u \in Units : RevivedBy(u) => is_agent_alive']_vars

\* the session was dead when move_async was called; its request was sent and
\* answered, and the runner has set is_agent_alive to true again
C32_Witness ==
    \E h \in Handles :
        /\ issued # None
        /\ ~issued[1][1]
        /\ frame[h].pc = "parse_return"
        /\ response[h] # None
        /\ response[h][1].kind = "ok"
        /\ GetBool(response[h][1].body, "alive")
        /\ is_agent_alive

\* the visual identifier create puts into the connect payload for the
\* argument a (None: null)
Canonical(a) ==
    CASE a.type = "SessionIdentifier" ->
            IF ident[a.ref].vsid = None THEN None
            ELSE Some([color |-> ident[a.ref].vsid[1].color,
                       identifierStr |-> ident[a.ref].vsid[1].identifier_str])
      [] a.type = "VisualSessionIdentifier" ->
            Some([color |-> a.vsid.color, identifierStr |-> a.vsid.identifier_str])
      [] a.type = "tuple" -> Some([color |-> a.color, identifierStr |-> a.str])
      [] a.type = "str" -> Some([color |-> "White", identifierStr |-> a.str])
      [] OTHER -> None

\* C33: create resolves its argument before any exchange: a SessionIdentifier,
\* a VisualSessionIdentifier, a (label, color) pair and a string (color White)
\* with a label of at most 2 characters give the connect request with that
\* visual identifier, None gives the request with a null visual identifier;
\* a pair or string with a longer label raises ValueError and every other
\* argument raises TypeError, both without a request
C33_CoercedBeforeExchange ==
    [][connected' # None =>
         \E c \in {connected'[1]} :
            IF c.arg.type \in {"None", "SessionIdentifier", "VisualSessionIdentifier"}
               \/ (c.arg.type \in {"tuple", "str"} /\ Len(c.arg.str) <= 2)
            THEN /\ c.request # None
                 /\ c.request[1].vsid = Canonical(c.arg)
            ELSE /\ c.request = None
                 /\ c.reply = None
                 /\ c.session = None
                 /\ c.raised # None
                 /\ c.raised[1].type = IF c.arg.type \in {"tuple", "str"}
                                       THEN "ValueError" ELSE "TypeError"
                 /\ UNCHANGED <<ident, sessions>>]_vars

====
